---------------------------- MODULE Spec2Model ----------------------------
(***************************************************************************)
(* Model of the property-linking graph and the update scheduler of         *)
(* ff-core's entity/component system (source/ecs): Property, PropertySet,  *)
(* PropertyLink, LinkableSorter, Component, System, Module, Performer.     *)
(*                                                                         *)
(* Components are the Linkables.  Every component is a TestComponent       *)
(* (test/ecs/TestComponent.ts) cut down to the properties num0 (a number)  *)
(* and vec2 (an array of two numbers) in both its input and its output     *)
(* set.  An element index that is not supplied (undefined) is NoIndex.     *)
(***************************************************************************)
EXTENDS Integers, Sequences, FiniteSets, TLC

\* ------------------------------------------------------------- bounds
\* Number of operations of one behaviour of the scheduler (Spec), of the sorter
\* (SortSpec), of the property graph (LinkSpec) and of the linking interface
\* of Property and Component (ApiSpec).
MaxSteps == 3
MaxSortSteps == 4
MaxLinkSteps == 3
MaxApiSteps == 4
\* Number of questions asked of canLinkFrom in one behaviour.
MaxQueries == 1
\* Number of calls on a property set in one behaviour.
MaxSetSteps == 3
\* Number of calls of add and remove on a property set in one behaviour.
MaxRemoveSteps == 3
\* Number of operations of one behaviour with update() hooks that throw.
MaxFailSteps == 2
\* Number of operations of one behaviour of values set and pushed.
MaxPushSteps == 3
\* Number of operations of one behaviour that ends with a serialization.
MaxRoundSteps == 3
\* Number of callers of Lock.guard.
NumCallers == 3
\* Number of operations of one behaviour of passes over linked components.
MaxPassSteps == 4
\* Number of operations of one behaviour that ends with a call of the sorter.
MaxSorterSteps == 3
\* Number of operations of one behaviour with update() hooks that link.
MaxRelinkSteps == 2
\* Number of links that exist at the same time.
MaxLinks == 3
\* Number of waitForUpdate() requests of one behaviour.
MaxWaits == 2

\* ---------------------------------------------------------- universe
\* The components of the system, named by their id.
Comps == {1, 2, 3}

\* The two property sets of a component (Component.ins, Component.outs).
Sets == {"ins", "outs"}

\* PropertySet.properties of a TestComponent, in the order of insertion.
Keys == <<"num0", "vec2", "obj0", "mul0">>

\* Properties of other shapes and types, as canLinkFrom may be asked about:
\* an array of three numbers, a string, a boolean, and an object of another
\* class than obj0.
MoreKeys == <<"vec3", "str0", "bool0", "obj1">>

Props == [c : Comps, set : Sets, key : {Keys[i] : i \in 1..Len(Keys)}]

Prop(c, set, key) == [c |-> c, set |-> set, key |-> key]

\* PropertySet.properties: the properties of one set of one component, in order.
SetProperties(c, set) == [i \in 1..Len(Keys) |-> Prop(c, set, Keys[i])]

\* Property.preset
Preset(p) ==
    CASE p.key = "vec2" -> <<0, 0>>
      [] p.key = "vec3" -> <<1, 2, 3>>
      [] p.key = "str0" -> ""
      [] p.key = "bool0" -> FALSE
      [] p.key \in {"obj0", "obj1"} -> "null"
      [] OTHER -> 0

\* Property.isMulti(): schema.multi; mul0 is a number with channels.
IsMulti(p) == p.key = "mul0"

\* The value of a multi property: the array of its channels, or undefined.
Channels(seq) == [defined |-> TRUE, channels |-> seq]

Undefined == [defined |-> FALSE, channels |-> <<>>]

\* Property.value when the constructor returns: it has called reset() on the
\* value null.
Constructed(p) == IF IsMulti(p) THEN Channels(<<Preset(p)>>) ELSE Preset(p)

\* Property.elements: 1 for a scalar, the preset's length for an array.
Elements(p) == IF p.key \in {"vec2", "vec3"} THEN Len(Preset(p)) ELSE 1

\* Property.type: typeof the preset (of its first element for an array).
PropType(p) ==
    CASE p.key = "str0" -> "string"
      [] p.key = "bool0" -> "boolean"
      [] p.key \in {"obj0", "obj1"} -> "object"
      [] OTHER -> "number"

\* Property.schema.objectType: the class of the objects an object property
\* takes; undefined for the other properties.
ObjectType(p) ==
    CASE p.key = "obj0" -> "ClassA"
      [] p.key = "obj1" -> "ClassB"
      [] OTHER -> "undefined"

\* An element index that was not supplied (undefined): `undefined >= 0' is false.
NoIndex == -1

\* PropertyLink: the fields of a link.
Link(s, d, si, di) ==
    [source |-> s, destination |-> d, sourceIndex |-> si, destinationIndex |-> di]

\* ------------------------------------------------------- sequence helpers
RECURSIVE FlatMap(_, _)
\* The concatenation of f[x] for the elements x of seq, in order.
FlatMap(f, seq) ==
    IF seq = <<>> THEN <<>> ELSE f[Head(seq)] \o FlatMap(f, Tail(seq))

\* Array.indexOf, 1-based; 0 when x is not in seq.
IndexOf(seq, x) ==
    IF \E i \in 1..Len(seq) : seq[i] = x
    THEN CHOOSE i \in 1..Len(seq) : seq[i] = x /\ \A j \in 1..(i - 1) : seq[j] # x
    ELSE 0

\* Array.splice(index, 1)
RemoveAt(seq, i) == [j \in 1..(Len(seq) - 1) |-> IF j < i THEN seq[j] ELSE seq[j + 1]]

Range(seq) == {seq[i] : i \in 1..Len(seq)}

RECURSIVE SeqOfSet(_)
\* The elements of a finite set, in some order.
SeqOfSet(S) ==
    IF S = {} THEN <<>>
    ELSE LET x == CHOOSE y \in S : TRUE IN <<x>> \o SeqOfSet(S \ {x})

\* Every property of every component.
PropSeq == SeqOfSet(Props)

\* ------------------------------------------------------------ variables
VARIABLES
    scheduler,       \* which class owns the collection: "System" or "Module"
    componentList,   \* System._componentList / ComponentSet._list
    initList,        \* System._initList
    sortRequested,   \* Module._sortRequested
    inLinks,         \* Property.inLinks of every property
    outLinks,        \* Property.outLinks of every property
    value,           \* Property.value of every property
    pchanged,        \* Property.changed of every property
    changed,         \* Component.changed of every component
    updateWaitList,  \* System._updateWaitList: the pending requests
    waits,           \* history: per request the pass count when made and when resolved
    passes,          \* history: number of completed update passes
    orderState,      \* history: "initial", "sorted" or "stale" (a link changed since)
    log,             \* history: the hook calls of the last pass or cycle, in order
    last,            \* history: the operation that led to this state
    steps,           \* history: number of operations the behaviour has left
    pset,            \* a PropertySet under construction: its list and lookups
    lock             \* a Lock, the callers of guard() and the microtask queue

vars == <<scheduler, componentList, initList, sortRequested, inLinks, outLinks,
          value, pchanged, changed, updateWaitList, waits, passes, orderState,
          log, last, steps, pset, lock>>

\* The part of the state that setting a value changes.
PropState == [value |-> value, pchanged |-> pchanged, changed |-> changed]


\* --------------------------------------------------------------- Property
RECURSIVE Property_setValue(_, _, _, _)
RECURSIVE Property_set(_, _, _)
RECURSIVE PropertyLink_push(_, _, _)
RECURSIVE PushOutLinks(_, _, _)

\* A faulty variant of the loop: only the first outgoing link is pushed.
PushOutLinks_first(st, ol, links) ==
    IF links = <<>> THEN st ELSE PropertyLink_push(st, ol, Head(links))

\* The loop `for (i = 0; i < n; ++i) outLinks[i].push()' of setValue, set,
\* pushValue and push.
PushOutLinks(st, ol, links) ==
    IF links = <<>> THEN st
    ELSE PushOutLinks(PropertyLink_push(st, ol, Head(links)), ol, Tail(links))

\* A faulty variant of setValue: the value is stored and flagged, not forwarded.
Property_setValue_store(st, ol, p, v) ==
    [st EXCEPT !.value[p] = v, !.pchanged[p] = TRUE, !.changed[p.c] = TRUE]

\* Property.setValue(value): stores the value, sets the changed flag, pushes
\* through every outgoing link, then marks the owning linkable as changed.
Property_setValue(st, ol, p, v) ==
    LET s1 == [st EXCEPT !.value[p] = v, !.pchanged[p] = TRUE]
        s2 == PushOutLinks(s1, ol, ol[p])
    IN  [s2 EXCEPT !.changed[p.c] = TRUE]

\* Property.set(): as setValue, with the value the property already holds.
Property_set(st, ol, p) ==
    LET s1 == [st EXCEPT !.pchanged[p] = TRUE]
        s2 == PushOutLinks(s1, ol, ol[p])
    IN  [s2 EXCEPT !.changed[p.c] = TRUE]

\* A faulty variant of push(): the owning linkable is marked, as in set().
Property_push_marks(st, ol, p) == Property_set(st, ol, p)

\* Property.push(): as set(), without the mark on the owning linkable.
Property_push(st, ol, p) ==
    PushOutLinks([st EXCEPT !.pchanged[p] = TRUE], ol, ol[p])

\* Property.pushValue(value): as setValue, without the mark on the owning
\* linkable.
Property_pushValue(st, ol, p, v) ==
    PushOutLinks([st EXCEPT !.value[p] = v, !.pchanged[p] = TRUE], ol, ol[p])

\* PropertyLink.push(): reads the source's value (or the element sourceIndex of
\* it) and writes it into the destination (or into its element
\* destinationIndex); the destination forwards it and marks its linkable.
PropertyLink_push(st, ol, l) ==
    LET v == IF l.sourceIndex >= 0
             THEN st.value[l.source][l.sourceIndex + 1]
             ELSE st.value[l.source]
    IN  IF l.destinationIndex >= 0
        THEN Property_set(
                 [st EXCEPT !.value[l.destination][l.destinationIndex + 1] = v],
                 ol, l.destination)
        ELSE Property_setValue(st, ol, l.destination, v)

\* convert.canConvert(sourceType, destinationType): the primitive types convert
\* into each other, an object only into an object.
canConvert(st, dt) == (st = "object") <=> (dt = "object")

\* A faulty variant of canLinkFrom: an index on a scalar gives false, no Error.
Property_canLinkFrom_noThrow(d, s, si, di) ==
    LET srcIsArray == Elements(s) > 1 /\ ~(si >= 0)
        dstIsArray == Elements(d) > 1 /\ ~(di >= 0)
    IN  IF d.set # "ins" THEN "false"
        ELSE IF Elements(s) = 1 /\ si >= 0 THEN "false"
        ELSE IF Elements(d) = 1 /\ di >= 0 THEN "false"
        ELSE IF srcIsArray # dstIsArray THEN "false"
        ELSE IF srcIsArray /\ Elements(s) # Elements(d) THEN "false"
        ELSE IF /\ PropType(s) = "object" /\ PropType(d) = "object"
                /\ ObjectType(s) # ObjectType(d) THEN "false"
        ELSE IF canConvert(PropType(s), PropType(d)) THEN "true" ELSE "false"

\* A faulty variant of canLinkFrom: the element counts are not compared.
Property_canLinkFrom_anyCount(d, s, si, di) ==
    LET srcIsArray == Elements(s) > 1 /\ ~(si >= 0)
        dstIsArray == Elements(d) > 1 /\ ~(di >= 0)
    IN  IF d.set # "ins" THEN "false"
        ELSE IF Elements(s) = 1 /\ si >= 0 THEN "throw"
        ELSE IF Elements(d) = 1 /\ di >= 0 THEN "throw"
        ELSE IF srcIsArray # dstIsArray THEN "false"
        ELSE IF /\ PropType(s) = "object" /\ PropType(d) = "object"
                /\ ObjectType(s) # ObjectType(d) THEN "false"
        ELSE IF canConvert(PropType(s), PropType(d)) THEN "true" ELSE "false"

\* Property.canLinkFrom(source, sourceIndex, destinationIndex), called on the
\* destination d: "true", "false", or "throw" where the code throws an Error.
Property_canLinkFrom(d, s, si, di) ==
    LET validSrcIndex == si >= 0
        validDstIndex == di >= 0
        srcIsArray == Elements(s) > 1 /\ ~validSrcIndex
        dstIsArray == Elements(d) > 1 /\ ~validDstIndex
    IN  IF d.set # "ins" THEN "false"
        ELSE IF Elements(s) = 1 /\ validSrcIndex THEN "throw"
        ELSE IF Elements(d) = 1 /\ validDstIndex THEN "throw"
        ELSE IF srcIsArray # dstIsArray THEN "false"
        ELSE IF srcIsArray /\ Elements(s) # Elements(d) THEN "false"
        ELSE IF /\ PropType(s) = "object" /\ PropType(d) = "object"
                /\ ObjectType(s) # ObjectType(d) THEN "false"
        ELSE IF canConvert(PropType(s), PropType(d)) THEN "true" ELSE "false"

\* Property.canLinkTo(destination, sourceIndex, destinationIndex), on the source.
Property_canLinkTo(s, d, si, di) == Property_canLinkFrom(d, s, si, di)

\* Property.addInLink(link): inLinks.push(link)
Property_addInLink(il, l) == [il EXCEPT ![l.destination] = Append(@, l)]

\* Property.addOutLink(link), the list: outLinks.push(link)
Property_addOutLink(ol, l) == [ol EXCEPT ![l.source] = Append(@, l)]

\* A faulty variant of addOutLink: the new link is not pushed.
Property_addOutLink_noPush(st, ol, l) == st

\* Property.addOutLink(link), the value: the new link alone is pushed.
Property_addOutLink_push(st, ol, l) == PropertyLink_push(st, ol, l)

\* Property.unlinkFrom: inLinks.find(link => same source, sourceIndex and
\* destinationIndex); 0 when there is none.
FindInLink(il, d, s, si, di) == IndexOf(il[d], Link(s, d, si, di))

\* A faulty variant of linkFrom: the link is made without asking canLinkFrom.
Property_linkFrom_unchecked(x, d, s, si, di) ==
    LET l == Link(s, d, si, di)
    IN  [x EXCEPT !.il = Property_addInLink(x.il, l),
                  !.ol = Property_addOutLink(x.ol, l)]

\* destination.linkFrom(source, sourceIndex, destinationIndex): throws unless
\* canLinkFrom returns true (its own Error, or "can't link"); else the link is
\* added to the destination's inLinks, then to the source's outLinks, and pushed.
Property_linkFrom(x, d, s, si, di) ==
    LET l == Link(s, d, si, di)
        il2 == Property_addInLink(x.il, l)
        ol2 == Property_addOutLink(x.ol, l)
    IN  IF Property_canLinkFrom(d, s, si, di) # "true"
        THEN [x EXCEPT !.thrown = TRUE]
        ELSE [st |-> Property_addOutLink_push(x.st, ol2, l),
              il |-> il2, ol |-> ol2, thrown |-> FALSE]

\* Property.hasInLinks()
Property_hasInLinks(il, p) == Len(il[p]) > 0

\* Property.reset(): throws where the property has inbound links; else
\* setValue(value), where value is (a copy of) the preset, and for a multi
\* property the new array of one channel if the property has no array yet,
\* and stays unassigned if it has one.
Property_reset(st, il, ol, p) ==
    LET v == IF ~IsMulti(p) THEN Preset(p)
             ELSE IF ~st.value[p].defined THEN Channels(<<Preset(p)>>)
             ELSE Undefined
    IN  IF Property_hasInLinks(il, p)
        THEN [thrown |-> TRUE, st |-> st]
        ELSE [thrown |-> FALSE, st |-> Property_setValue(st, ol, p, v)]

\* The calls below take and return x = [st, il, ol, thrown]: the state of the
\* properties, the link lists, and whether an Error was thrown; once one is
\* thrown, the calls that would have followed do nothing.

\* destination.removeInLink(link): throws where the link is not in the list;
\* an object property that has lost its last inbound link is reset.
Property_removeInLink(x, l) ==
    LET d == l.destination
        i == IndexOf(x.il[d], l)
        il2 == [x.il EXCEPT ![d] = RemoveAt(@, i)]
    IN  IF x.thrown THEN x
        ELSE IF i = 0 THEN [x EXCEPT !.thrown = TRUE]
        ELSE IF Len(il2[d]) = 0 /\ PropType(d) = "object"
        THEN LET r == Property_reset(x.st, il2, x.ol, d)
             IN  [st |-> r.st, il |-> il2, ol |-> x.ol, thrown |-> r.thrown]
        ELSE [x EXCEPT !.il = il2]

\* A faulty variant of removeOutLink: the source keeps the link.
Property_removeOutLink_keep(x, l) == x

\* source.removeOutLink(link): throws where the link is not in the list.
Property_removeOutLink(x, l) ==
    LET s == l.source
        i == IndexOf(x.ol[s], l)
    IN  IF x.thrown THEN x
        ELSE IF i = 0 THEN [x EXCEPT !.thrown = TRUE]
        ELSE [x EXCEPT !.ol[s] = RemoveAt(@, i)]

\* A faulty variant of unlinkFrom: an Error where no link matches.
Property_unlinkFrom_throws(x, d, s, si, di) ==
    LET l == Link(s, d, si, di)
    IN  IF FindInLink(x.il, d, s, si, di) = 0
        THEN [x |-> [x EXCEPT !.thrown = TRUE], ret |-> FALSE]
        ELSE [x |-> Property_removeOutLink(Property_removeInLink(x, l), l),
              ret |-> TRUE]

\* destination.unlinkFrom(source, sourceIndex, destinationIndex): the state
\* after the call and the value returned.
Property_unlinkFrom(x, d, s, si, di) ==
    LET l == Link(s, d, si, di)
    IN  IF FindInLink(x.il, d, s, si, di) = 0
        THEN [x |-> x, ret |-> FALSE]
        ELSE [x |-> Property_removeOutLink(Property_removeInLink(x, l), l),
              ret |-> TRUE]

RECURSIVE RemoveOutLinks(_, _)
\* inLinks.forEach(link => link.source.removeOutLink(link))
RemoveOutLinks(x, links) ==
    IF links = <<>> THEN x
    ELSE RemoveOutLinks(Property_removeOutLink(x, Head(links)), Tail(links))

RECURSIVE RemoveInLinks(_, _)
\* outLinks.forEach(link => link.destination.removeInLink(link))
RemoveInLinks(x, links) ==
    IF links = <<>> THEN x
    ELSE RemoveInLinks(Property_removeInLink(x, Head(links)), Tail(links))

\* A faulty variant of unlink(): only the property's own lists are emptied.
Property_unlink_ownOnly(x, p) == [x EXCEPT !.il[p] = <<>>, !.ol[p] = <<>>]

\* Property.unlink(): the inbound links are taken from their sources' lists
\* and the own list is emptied; then the outbound links are taken from their
\* destinations' lists, by removeInLink, and the own list is emptied.
Property_unlink(x, p) ==
    LET x1 == RemoveOutLinks(x, x.il[p])
        x2 == IF x1.thrown THEN x1 ELSE [x1 EXCEPT !.il[p] = <<>>]
        x3 == RemoveInLinks(x2, x2.ol[p])
    IN  IF x3.thrown THEN x3 ELSE [x3 EXCEPT !.ol[p] = <<>>]

RECURSIVE UnlinkAll(_, _)
\* properties.forEach(property => property.unlink())
UnlinkAll(x, props) ==
    IF props = <<>> THEN x
    ELSE UnlinkAll(Property_unlink(x, Head(props)), Tail(props))

\* Component.unlink(): the input properties, then the output properties.
Component_unlink(x, c) ==
    UnlinkAll(UnlinkAll(x, SetProperties(c, "ins")), SetProperties(c, "outs"))

\* System.removeComponent(component), the lists: the component is spliced out.
System_removeFromList(list, c) ==
    IF IndexOf(list, c) = 0 THEN list ELSE RemoveAt(list, IndexOf(list, c))

\* ------------------------------------------------------------ PropertySet
\* The keys and the paths of the properties that are added to the set; the
\* empty key is that of a property without a key.
SetKeys == {"", "a", "b", "c"}

SetPaths == {"P", "Q"}

SetProps == [key : SetKeys, path : SetPaths]

\* No property: this[key] and _propsByPath[path] are undefined.
NoProp == [key |-> "", path |-> ""]

\* new PropertySet(linkable): properties = [], _propsByPath = {}, no key set.
PropertySet_new ==
    [properties |-> <<>>,
     byKey |-> [k \in SetKeys |-> NoProp],
     byPath |-> [q \in SetPaths |-> NoProp]]

\* PropertySet.add(property): throws for a property without a key and where
\* this[key] is set; else sets this[key], appends to properties and sets
\* _propsByPath[path].  y = [ps, thrown].
PropertySet_add(y, property) ==
    IF y.thrown THEN y
    ELSE IF property.key = "" THEN [y EXCEPT !.thrown = TRUE]
    ELSE IF y.ps.byKey[property.key] # NoProp THEN [y EXCEPT !.thrown = TRUE]
    ELSE [y EXCEPT !.ps.byKey[property.key] = property,
                   !.ps.properties = Append(@, property),
                   !.ps.byPath[property.path] = property]

RECURSIVE PropertySet_append(_, _)
\* PropertySet.append(properties): for every key of the object given, in
\* order, the property takes the key and is added.
PropertySet_append(y, entries) ==
    IF entries = <<>> THEN y
    ELSE PropertySet_append(
             PropertySet_add(y, [key |-> Head(entries).key,
                                 path |-> Head(entries).property.path]),
             Tail(entries))

\* PropertySet.remove(property): throws where this[property.key] is not the
\* property; else deletes this[key] and _propsByPath[path].  Between the two,
\* props.slice(index, 1) makes a copy of a part of the list, which is dropped:
\* the list itself is left as it is.  y = [ps, thrown].
PropertySet_remove(y, property) ==
    IF y.thrown THEN y
    ELSE IF y.ps.byKey[property.key] # property THEN [y EXCEPT !.thrown = TRUE]
    ELSE [y EXCEPT !.ps.byKey[property.key] = NoProp,
                   !.ps.byPath[property.path] = NoProp]

\* ------------------------------------------------------------------ Lock
\* The callers of lock.guard(fn).
Callers == 1..NumCallers

\* No promise: this.resolve is undefined.
NoPromise == -1

\* new Lock(): this.promise = Promise.resolve(), this.resolve = undefined.
\* Promises are numbered; promise 0 is the resolved one of the constructor.
\* Each caller is "idle" before it calls guard, "acquiring" at `await
\* this.promise', "acquired" when acquire() has returned, "inFn" while
\* its function runs and "done" after release().
Lock_new ==
    [promise |-> 0,
     resolve |-> NoPromise,
     resolved |-> {0},
     count |-> 0,
     pc |-> [i \in Callers |-> "idle"],
     reactions |-> [k \in 0..NumCallers |-> <<>>],
     microtasks |-> <<>>]

\* `await promise' by the caller i: its continuation is queued as a microtask
\* when the promise is resolved, at once if it is resolved already.
Await(lk, i, promise) ==
    IF promise \in lk.resolved
    THEN [lk EXCEPT !.microtasks = Append(@, i)]
    ELSE [lk EXCEPT !.reactions[promise] = Append(@, i)]

\* Lock.acquire, after `await this.promise': this.promise = new Promise(resolve
\* => (this.resolve = resolve)); acquire() returns, and the continuation of
\* `await this.acquire()' in guard is queued.
Lock_acquired(lk, i) ==
    [lk EXCEPT !.count = @ + 1,
               !.promise = lk.count + 1,
               !.resolve = lk.count + 1,
               !.pc[i] = "acquired",
               !.microtasks = Append(Tail(@), i)]

\* Lock.release(): this.resolve?.() resolves the promise made last, if it is
\* not resolved yet; the continuations that wait for it are queued in order.
Lock_release(lk) ==
    IF lk.resolve = NoPromise \/ lk.resolve \in lk.resolved THEN lk
    ELSE [lk EXCEPT !.resolved = @ \cup {lk.resolve},
                    !.microtasks = @ \o lk.reactions[lk.resolve],
                    !.reactions[lk.resolve] = <<>>]

\* ---------------------------------------------------------- serialization
\* A JSON object is a function on the names of its fields; a field that is not
\* there reads as undefined, which is false in a condition.  Null and the
\* object without fields are both the function on no names.
Has(json, field) == field \in DOMAIN json

NoJson == <<>>

Field(name, val, present) == IF present THEN name :> val ELSE NoJson

\* The entities of a module, each with the components it holds.
Entity(id, name, components) == [id |-> id, name |-> name, components |-> components]

\* property.deflate(): the persisted state of one property, { value?, links? }:
\* the value unless the property is at its default and has no inbound link,
\* the outbound links as destination id, destination key and element
\* indices; nothing when there is neither.
Property_deflate(g, p) ==
    LET hasValue == g.value[p] # Constructed(p) \/ g.il[p] # <<>>
        links == [i \in 1..Len(g.ol[p]) |->
                    [id |-> g.ol[p][i].destination.c,
                     set |-> g.ol[p][i].destination.set,
                     key |-> g.ol[p][i].destination.key,
                     sourceIndex |-> g.ol[p][i].sourceIndex,
                     destinationIndex |-> g.ol[p][i].destinationIndex]]
    IN  Field("value", g.value[p], hasValue) @@ Field("links", links, links # <<>>)

\* PropertySet.deflate(): the JSON of every property that has one, under the
\* property's key; null when no property has one.
PropertySet_deflate(g, c, set) ==
    LET keys == {Keys[i] : i \in 1..Len(Keys)}
        kept == {k \in keys : Property_deflate(g, Prop(c, set, k)) # NoJson}
    IN  [k \in kept |-> Property_deflate(g, Prop(c, set, k))]

\* Component.deflate(): type and id, and ins and outs where they are not null.
Component_deflate(g, c) ==
    LET jsonIns == PropertySet_deflate(g, c, "ins")
        jsonOuts == PropertySet_deflate(g, c, "outs")
    IN  ("type" :> "Test" @@ "id" :> c)
        @@ Field("ins", jsonIns, jsonIns # NoJson)
        @@ Field("outs", jsonOuts, jsonOuts # NoJson)

\* Entity.deflate(): id, the name if there is one, the components if there are
\* any.
Entity_deflate(g, entity) ==
    ("id" :> entity.id)
    @@ Field("name", entity.name, entity.name # "")
    @@ Field("components",
             [i \in 1..Len(entity.components) |->
                 Component_deflate(g, entity.components[i])],
             Len(entity.components) > 0)

\* Module.deflate(): the entities if there are any.
Module_deflate(g, entities) ==
    Field("entities",
          [i \in 1..Len(entities) |-> Entity_deflate(g, entities[i])],
          Len(entities) > 0)

\* A module without entities.  Besides its entities it holds the values and
\* the links of the properties of its components, and whether the call made
\* on it has thrown.
EmptyModule ==
    [entities |-> <<>>,
     value |-> [p \in Props |-> Constructed(p)],
     links |-> {},
     thrown |-> FALSE]

\* The components of all entities of the module m.
ModuleComponents(m) ==
    UNION {Range(m.entities[i].components) : i \in 1..Len(m.entities)}

RECURSIVE InflateLinkList(_, _, _)
\* property.inflate(json, linkableDict), the links: every persisted link is
\* made again, towards the property with the persisted key of the component
\* with the persisted id.
InflateLinkList(m, p, links) ==
    IF links = <<>> THEN m
    ELSE LET j == Head(links)
             l == Link(p, Prop(j.id, j.set, j.key), j.sourceIndex, j.destinationIndex)
         IN  InflateLinkList([m EXCEPT !.links = @ \cup {l}], p, Tail(links))

\* property.inflate(json, linkableDict): takes the persisted value, if there
\* is one, and makes the persisted links.
Property_inflate(m, p, json) ==
    LET m1 == IF Has(json, "value") THEN [m EXCEPT !.value[p] = json.value] ELSE m
    IN  IF Has(json, "links") THEN InflateLinkList(m1, p, json.links) ELSE m1

RECURSIVE InflateKeys(_, _, _, _, _)
\* The loop of PropertySet.inflateLinks over Object.keys(json):
\* this[key].inflate(json[key], linkableDict).  Where this[key] is not a
\* property of the set, the call on undefined throws.
InflateKeys(m, c, set, json, keys) ==
    IF keys = <<>> \/ m.thrown THEN m
    ELSE IF Head(keys) \notin Range(Keys) THEN [m EXCEPT !.thrown = TRUE]
    ELSE InflateKeys(Property_inflate(m, Prop(c, set, Head(keys)), json[Head(keys)]),
                     c, set, json, Tail(keys))

\* Object.keys(json), in the order in which the fields were set.
ObjectKeys(json) ==
    SelectSeq(<<"type", "id", "name", "ins", "outs", "num0", "vec2", "obj0", "mul0">>,
              LAMBDA k : Has(json, k))

\* PropertySet.inflateLinks(json, linkableDict)
PropertySet_inflateLinks(m, c, set, json) ==
    InflateKeys(m, c, set, json, ObjectKeys(json))

\* Component.inflateLinks(json, linkableDict): hands the JSON of the component,
\* not json.ins and json.outs, to the two property sets.
Component_inflateLinks(m, c, json) ==
    LET m1 == IF Has(json, "ins") THEN PropertySet_inflateLinks(m, c, "ins", json) ELSE m
    IN  IF m1.thrown THEN m1
        ELSE IF Has(json, "outs") THEN PropertySet_inflateLinks(m1, c, "outs", json)
        ELSE m1

\* Entity.inflate(json, linkableDict): a component is created for every entry
\* of json.components, if json has components.  Component.inflate adds the
\* properties that were persisted with a schema; there are none.
Entity_inflate(m, e, json) ==
    IF Has(json, "components")
    THEN [m EXCEPT !.entities[e].components =
             [i \in 1..Len(json.components) |-> json.components[i]["id"]]]
    ELSE m

RECURSIVE InflateComponentLinks(_, _, _)
\* The loop of Entity.inflateLinks over json.components:
\* this.components.getById(jsonComp.id).inflateLinks(jsonComp, linkableDict).
\* Where the entity has no component with that id, getById returns undefined
\* and the call on it throws.
InflateComponentLinks(m, e, comps) ==
    IF comps = <<>> \/ m.thrown THEN m
    ELSE LET id == Head(comps)["id"]
         IN  IF id \notin Range(m.entities[e].components)
             THEN [m EXCEPT !.thrown = TRUE]
             ELSE InflateComponentLinks(Component_inflateLinks(m, id, Head(comps)),
                                        e, Tail(comps))

\* Entity.inflateLinks(json, linkableDict)
Entity_inflateLinks(m, e, json) ==
    IF Has(json, "components") THEN InflateComponentLinks(m, e, json.components) ELSE m

RECURSIVE InflateEntities(_, _, _)
\* The first loop of Module.inflate: createEntity(jsonEntity.name,
\* jsonEntity.id) and entity.inflate(json, linkableDict), where json is the
\* JSON of the module.
InflateEntities(m, json, i) ==
    IF i > Len(json.entities) THEN m
    ELSE LET j == json.entities[i]
             created == Entity(j["id"], IF Has(j, "name") THEN j["name"] ELSE "", <<>>)
             m1 == [m EXCEPT !.entities = Append(@, created)]
         IN  InflateEntities(Entity_inflate(m1, Len(m1.entities), json), json, i + 1)

RECURSIVE InflateEntityLinks(_, _, _)
\* The second loop of Module.inflate: entities.getById(jsonEntity.id) and
\* entity.inflateLinks(jsonEntity, linkableDict).
InflateEntityLinks(m, json, i) ==
    IF i > Len(json.entities) \/ m.thrown THEN m
    ELSE InflateEntityLinks(Entity_inflateLinks(m, i, json.entities[i]), json, i + 1)

\* Module.inflate(json), on the module m.
Module_inflate(m, json) ==
    IF Has(json, "entities")
    THEN InflateEntityLinks(InflateEntities(m, json, 1), json, 1)
    ELSE m

\* ----------------------------------------------------------- link graph
\* Every link of the graph.
AllLinks(ol) == UNION {Range(ol[p]) : p \in Props}

RECURSIVE PropClosure(_, _)
\* The properties of ps and everything reachable from them over links.
PropClosure(ps, ol) ==
    LET next == ps \cup {l.destination : l \in UNION {Range(ol[p]) : p \in ps}}
    IN  IF next = ps THEN ps ELSE PropClosure(next, ol)

\* The properties reachable from p through one or more forward links.
PropReachable(p, ol) == PropClosure({l.destination : l \in Range(ol[p])}, ol)

\* No property reaches itself: setValue's recursion ends.
PropAcyclic(ol) == \A p \in Props : p \notin PropReachable(p, ol)

RECURSIVE CompClosure(_, _)
\* The components of cs and every component a link leads to from them.
CompClosure(cs, ol) ==
    LET next == cs \cup {l.destination.c : l \in {k \in AllLinks(ol) : k.source.c \in cs}}
    IN  IF next = cs THEN cs ELSE CompClosure(next, ol)

\* The components reachable from c over one or more links of any kind.
CompReachable(c, ol) ==
    CompClosure({l.destination.c : l \in {k \in AllLinks(ol) : k.source.c = c}}, ol)

\* The link graph between the linkables has no cycle (a link from a property of
\* a component to a property of the same component is a cycle).
Acyclic(ol) == \A c \in Comps : c \notin CompReachable(c, ol)

\* An output of a is linked to an input of b.
OutInLinked(a, b, ol) ==
    \E l \in AllLinks(ol) :
        /\ l.source.c = a /\ l.source.set = "outs"
        /\ l.destination.c = b /\ l.destination.set = "ins"

\* ----------------------------------------------------------- LinkableSorter
RECURSIVE LinkableSorter_visit(_, _, _)
RECURSIVE VisitAll(_, _, _)

\* A faulty variant of visit(): it follows no link.
VisitTargets_none(c, ol) == <<>>

\* The linkables visit(c) recurses into, in the order of its loops: for each
\* output property and each of its links, first the destinations of the links
\* that leave the properties of the destination's set, then the destination's
\* linkable.
VisitTargets(c, ol) ==
    LET ofLink == [l \in AllLinks(ol) |->
            FlatMap([q \in Props |-> [i \in 1..Len(ol[q]) |-> ol[q][i].destination.c]],
                    SetProperties(l.destination.c, l.destination.set))
            \o <<l.destination.c>>]
        ofProp == [p \in Props |-> FlatMap(ofLink, ol[p])]
    IN  FlatMap(ofProp, SetProperties(c, "outs"))

VisitAll(s, targets, ol) ==
    IF targets = <<>> THEN s
    ELSE VisitAll(LinkableSorter_visit(s, Head(targets), ol), Tail(targets), ol)

\* A faulty variant of visit(): the linkable is appended to the result, not
\* prepended.
LinkableSorter_visit_push(s, c, ol) ==
    IF c \in s.visited \/ c \in s.visiting THEN s
    ELSE LET s1 == [s EXCEPT !.visiting = @ \cup {c}]
             s2 == VisitAll(s1, VisitTargets(c, ol), ol)
         IN  [visited |-> s2.visited \cup {c},
              visiting |-> s2.visiting \ {c},
              sorted |-> s2.sorted \o <<c>>]

\* LinkableSorter.visit(linkable)
LinkableSorter_visit(s, c, ol) ==
    IF c \in s.visited \/ c \in s.visiting THEN s
    ELSE LET s1 == [s EXCEPT !.visiting = @ \cup {c}]
             s2 == VisitAll(s1, VisitTargets(c, ol), ol)
         IN  [visited |-> s2.visited \cup {c},
              visiting |-> s2.visiting \ {c},
              sorted |-> <<c>> \o s2.sorted]

\* LinkableSorter.sort(linkables)
LinkableSorter_sort(linkables, ol) ==
    VisitAll([visited |-> {}, visiting |-> {}, sorted |-> <<>>], linkables, ol).sorted


\* ------------------------------------------------------------- Component
\* Whether the call of update() ends with an exception.
Component_updateThrows(hook) == hook = "throw"

\* The component that follows c, the last one followed by the first.
NextComp(c) == (c % Cardinality(Comps)) + 1

\* Component.update(context) as a derived class overrides it.  "noop" is
\* TestComponent.update, which does nothing; "forward" is a component that
\* computes its output from its input: outs.num0.setValue(ins.num0.value);
\* "throw" is a component whose update() throws before it changes anything;
\* "link" is a component that links its output to the input of the next
\* component: outs.num0.linkTo(next.ins.num0).  x holds the properties and
\* their links, and whether the call has thrown.
Component_update(x, c, hook) ==
    IF hook = "forward"
    THEN [x EXCEPT !.st = Property_setValue(x.st, x.ol, Prop(c, "outs", "num0"),
                                            x.st.value[Prop(c, "ins", "num0")])]
    ELSE IF Component_updateThrows(hook) THEN [x EXCEPT !.thrown = TRUE]
    ELSE IF hook = "link"
    THEN Property_linkFrom(x, Prop(NextComp(c), "ins", "num0"),
                           Prop(c, "outs", "num0"), NoIndex, NoIndex)
    ELSE x

\* A faulty variant of resetChanged(): the flag of the component stays.
Component_resetChanged_insOnly(st, c) ==
    [st EXCEPT !.pchanged = [p \in Props |->
                   IF p.c = c /\ p.set = "ins" THEN FALSE ELSE st.pchanged[p]]]

\* A faulty variant of resetChanged(): the flags of the input properties stay.
Component_resetChanged_flagOnly(st, c) == [st EXCEPT !.changed[c] = FALSE]

\* Component.resetChanged(): clears the component's flag and the flags of all
\* of its input properties.
Component_resetChanged(st, c) ==
    [st EXCEPT !.changed[c] = FALSE,
               !.pchanged = [p \in Props |->
                   IF p.c = c /\ p.set = "ins" THEN FALSE ELSE st.pchanged[p]]]

\* The overrides of update() the components of one pass may have.
Hooks == [Comps -> {"noop", "forward"}]

\* The same, with components whose update() throws.
ThrowingHooks == [Comps -> {"noop", "forward", "throw"}]

\* The same, with components whose update() changes the links.
LinkingHooks == [Comps -> {"noop", "forward", "link"}]

\* A faulty variant of the loop: the exception is caught per component and the
\* loop goes on.
WalkAfter_caught(threw, rest) == rest

\* The components the loop goes on to after one component: the rest of the
\* list, or none when update() threw, as there is no try/catch around the call
\* and the exception leaves the loop and the method.
WalkAfter(threw, rest) == IF threw THEN <<>> ELSE rest

\* ------------------------------------------------------------- scheduler
\* A faulty variant of the test: the flags are those of the start of the pass.
UpdateDue_atStart(st, c) == changed[c]

\* The test `if (component.changed)' of the update loops.
UpdateDue(st, c) == st.changed[c]

RECURSIVE UpdateWalk(_, _, _, _)
\* The loop of System.update and Module.update over the components, from index
\* i on: update() and resetChanged() on every component whose changed flag is
\* set when the loop reaches it.  x holds the properties and their links.
\* Returns them and the record of the walk: per component whether its flag
\* was set when reached, whether update() was called and which override,
\* whether one of its inputs had its flag set then, whether update() threw,
\* whether it changed the links, the flags right after, and whether the state
\* was left as it was.  A component whose update() throws is not reset, and
\* the loop ends there.
UpdateWalk(x, list, hooks, entries) ==
    IF list = <<>>
    THEN [st |-> x.st, il |-> x.il, ol |-> x.ol, log |-> entries,
          thrown |-> \E i \in 1..Len(entries) : entries[i].threw]
    ELSE LET c == Head(list)
             due == UpdateDue(x.st, c)
             u == IF due THEN Component_update(x, c, hooks[c]) ELSE x
             threw == due /\ u.thrown
             x1 == IF due /\ ~threw
                   THEN [u EXCEPT !.st = Component_resetChanged(u.st, c)]
                   ELSE [u EXCEPT !.thrown = FALSE]
             e == [op |-> "update", c |-> c,
                   reached |-> x.st.changed[c],
                   insChangedBefore |-> \E p \in Props :
                       p.c = c /\ p.set = "ins" /\ x.st.pchanged[p],
                   called |-> due,
                   hook |-> IF due THEN hooks[c] ELSE "none",
                   threw |-> threw,
                   relinked |-> x1.il # x.il \/ x1.ol # x.ol,
                   changedAfter |-> x1.st.changed[c],
                   insChangedAfter |-> \E p \in Props :
                       p.c = c /\ p.set = "ins" /\ x1.st.pchanged[p],
                   untouched |-> x1 = x]
         IN  UpdateWalk(x1, WalkAfter(threw, Tail(list)), hooks,
                        Append(entries, e))

\* A faulty variant of the tick loop: only the changed components are ticked.
TickWalk_changedOnly(list) ==
    LET due == SelectSeq(list, LAMBDA c : changed[c])
    IN  [i \in 1..Len(due) |-> [op |-> "tick", c |-> due[i]]]

\* The loop of System.tick and Module.tick: tick() on every component.
\* TestComponent.tick does nothing.
TickWalk(list) == [i \in 1..Len(list) |-> [op |-> "tick", c |-> list[i]]]

\* System.waitForUpdate: `this._updateWaitList.push(resolve)'.
System_pushWait(list, id) == Append(list, id)

\* A faulty variant of the end of System.update: the wait list is not emptied.
System_clearWaitList_keep(list) == list

\* System.update, its end: `this._updateWaitList.length = 0'.
System_clearWaitList(list) == <<>>

\* System.update, its end: every pending resolve() is called, in list order.
System_resolveAll(w, list, pass) ==
    [id \in 1..Len(w) |->
        IF id \in Range(list)
        THEN [w[id] EXCEPT !.by = pass, !.count = @ + 1]
        ELSE w[id]]

\* ------------------------------------------------------------------ Init
Start(schedulers, n) ==
    /\ scheduler \in schedulers
    /\ componentList = <<1, 2, 3>>
    /\ initList = <<1, 2, 3>>
    /\ sortRequested = FALSE
    /\ inLinks = [p \in Props |-> <<>>]
    /\ outLinks = [p \in Props |-> <<>>]
    /\ value = [p \in Props |-> Constructed(p)]
    /\ pchanged = [p \in Props |-> TRUE]
    /\ changed = [c \in Comps |-> TRUE]
    /\ updateWaitList = <<>>
    /\ waits = <<>>
    /\ passes = 0
    /\ orderState = "initial"
    /\ log = <<>>
    /\ last = [op |-> "init"]
    /\ steps = n
    /\ pset = PropertySet_new
    /\ lock = Lock_new

\* One more operation of the behaviour.
Step == steps > 0 /\ steps' = steps - 1

\* The number of links of the graph.
NumLinks == Len(FlatMap(inLinks, PropSeq))

SetPropState(st) ==
    /\ value' = st.value
    /\ pchanged' = st.pchanged
    /\ changed' = st.changed

\* --------------------------------------------------------------- actions
\* The properties and their links as the calls on properties take them.
PropX == [st |-> PropState, il |-> inLinks, ol |-> outLinks, thrown |-> FALSE]

ApplyX(x) ==
    /\ inLinks' = x.il
    /\ outLinks' = x.ol
    /\ SetPropState(x.st)

\* destination.linkFrom(source, sourceIndex, destinationIndex), which
\* source.linkTo(destination, ...) calls.  A link that would close a path of
\* links from a property back to itself is not made: the push through it
\* would not return.
LinkFrom(d, s, si, di) ==
    /\ Step
    /\ LET l == Link(s, d, si, di)
           r == Property_linkFrom(PropX, d, s, si, di)
       IN  IF Property_canLinkFrom(d, s, si, di) = "true"
           THEN /\ NumLinks < MaxLinks
                /\ s \notin PropClosure({d}, outLinks)
                /\ ApplyX(r)
                /\ orderState' = IF r.thrown THEN orderState ELSE "stale"
                /\ last' = [op |-> "linkFrom", link |-> l, before |-> value,
                            thrown |-> r.thrown]
           ELSE /\ ApplyX(r)
                /\ orderState' = IF r.thrown THEN orderState ELSE "stale"
                /\ last' = [op |-> "linkFrom", link |-> l, before |-> value,
                            thrown |-> r.thrown, pre |-> PropX]
    /\ log' = <<>>
    /\ UNCHANGED <<lock, pset, scheduler, componentList, initList, sortRequested,
                   updateWaitList, waits, passes>>

\* destination.unlinkFrom(source, sourceIndex, destinationIndex), which
\* source.unlinkTo(destination, ...) calls.
UnlinkFrom(d, s, si, di) ==
    /\ Step
    /\ LET r == Property_unlinkFrom(PropX, d, s, si, di)
       IN  /\ ApplyX(r.x)
           /\ orderState' = IF r.ret THEN "stale" ELSE orderState
           /\ last' = [op |-> "unlinkFrom", link |-> Link(s, d, si, di),
                       ret |-> r.ret, thrown |-> r.x.thrown, pre |-> PropX]
    /\ log' = <<>>
    /\ UNCHANGED <<lock, pset, scheduler, componentList, initList, sortRequested,
                   updateWaitList, waits, passes>>

\* property.unlink()
Unlink(p) ==
    /\ Step
    /\ LET r == Property_unlink(PropX, p)
       IN  /\ ApplyX(r)
           /\ last' = [op |-> "unlink", p |-> p, thrown |-> r.thrown,
                       pre |-> PropX]
    /\ orderState' = "stale"
    /\ log' = <<>>
    /\ UNCHANGED <<lock, pset, scheduler, componentList, initList, sortRequested,
                   updateWaitList, waits, passes>>

\* component.unlink()
ComponentUnlink(c) ==
    /\ Step
    /\ LET r == Component_unlink(PropX, c)
       IN  /\ ApplyX(r)
           /\ last' = [op |-> "componentUnlink", c |-> c, thrown |-> r.thrown,
                       pre |-> PropX]
    /\ orderState' = "stale"
    /\ log' = <<>>
    /\ UNCHANGED <<lock, pset, scheduler, componentList, initList, sortRequested,
                   updateWaitList, waits, passes>>

\* component.dispose(), on a component of the collection: the component is
\* unlinked, then removed from the lists of the collection's owner.
Dispose(c) ==
    /\ Step
    /\ c \in Range(componentList)
    /\ LET r == Component_unlink(PropX, c)
       IN  /\ ApplyX(r)
           /\ componentList' =
                  IF r.thrown THEN componentList
                  ELSE System_removeFromList(componentList, c)
           /\ initList' =
                  IF r.thrown THEN initList ELSE System_removeFromList(initList, c)
           /\ last' = [op |-> "dispose", c |-> c, thrown |-> r.thrown,
                       pre |-> PropX]
    /\ orderState' = "stale"
    /\ log' = <<>>
    /\ UNCHANGED <<lock, pset, scheduler, sortRequested, updateWaitList, waits, passes>>

\* property.reset()
Reset(p) ==
    /\ Step
    /\ LET r == Property_reset(PropState, inLinks, outLinks, p)
       IN  /\ SetPropState(r.st)
           /\ last' = [op |-> "reset", p |-> p, thrown |-> r.thrown,
                       pre |-> PropX]
    /\ log' = <<>>
    /\ UNCHANGED <<lock, pset, scheduler, componentList, initList, sortRequested, inLinks,
                   outLinks, updateWaitList, waits, passes, orderState>>

\* destination.canLinkFrom(source, sourceIndex, destinationIndex), asked from
\* outside: nothing changes.
CanLinkFrom(d, s, si, di) ==
    /\ Step
    /\ last' = [op |-> "canLinkFrom", d |-> d, s |-> s, si |-> si, di |-> di,
                result |-> Property_canLinkFrom(d, s, si, di)]
    /\ UNCHANGED <<lock, pset, scheduler, componentList, initList, sortRequested, inLinks,
                   outLinks, value, pchanged, changed, updateWaitList, waits,
                   passes, orderState, log>>

\* propertySet.add(property)
SetAdd(property) ==
    /\ Step
    /\ LET r == PropertySet_add([ps |-> pset, thrown |-> FALSE], property)
       IN  /\ pset' = r.ps
           /\ last' = [op |-> "add", property |-> property, thrown |-> r.thrown,
                       pre |-> pset]
    /\ UNCHANGED <<lock, scheduler, componentList, initList, sortRequested,
                   inLinks, outLinks, value, pchanged, changed, updateWaitList,
                   waits, passes, orderState, log>>

\* propertySet.remove(property)
SetRemove(property) ==
    /\ Step
    /\ LET r == PropertySet_remove([ps |-> pset, thrown |-> FALSE], property)
       IN  /\ pset' = r.ps
           /\ last' = [op |-> "remove", property |-> property,
                       thrown |-> r.thrown, pre |-> pset]
    /\ UNCHANGED <<lock, scheduler, componentList, initList, sortRequested,
                   inLinks, outLinks, value, pchanged, changed, updateWaitList,
                   waits, passes, orderState, log>>

\* propertySet.append({ key1: property1, key2: property2 })
SetAppend(entries) ==
    /\ Step
    /\ LET r == PropertySet_append([ps |-> pset, thrown |-> FALSE], entries)
       IN  /\ pset' = r.ps
           /\ last' = [op |-> "append", entries |-> entries,
                       thrown |-> r.thrown, pre |-> pset]
    /\ UNCHANGED <<lock, scheduler, componentList, initList, sortRequested,
                   inLinks, outLinks, value, pchanged, changed, updateWaitList,
                   waits, passes, orderState, log>>

\* property.setValue(v), called from outside of an update pass.
SetValue(p, v) ==
    /\ Step
    /\ SetPropState(Property_setValue(PropState, outLinks, p, v))
    /\ last' = [op |-> "setValue", p |-> p, v |-> v, before |-> value]
    /\ log' = <<>>
    /\ UNCHANGED <<lock, pset, scheduler, componentList, initList, sortRequested, inLinks,
                   outLinks, updateWaitList, waits, passes, orderState>>

\* property.push(), called from outside of an update pass.
Push(p) ==
    /\ Step
    /\ SetPropState(Property_push(PropState, outLinks, p))
    /\ last' = [op |-> "push", p |-> p, before |-> value, flags |-> changed]
    /\ log' = <<>>
    /\ UNCHANGED <<lock, pset, scheduler, componentList, initList, sortRequested, inLinks,
                   outLinks, updateWaitList, waits, passes, orderState>>

\* property.pushValue(v), called from outside of an update pass.
PushValue(p, v) ==
    /\ Step
    /\ SetPropState(Property_pushValue(PropState, outLinks, p, v))
    /\ last' = [op |-> "pushValue", p |-> p, v |-> v, before |-> value,
                flags |-> changed]
    /\ log' = <<>>
    /\ UNCHANGED <<lock, pset, scheduler, componentList, initList, sortRequested, inLinks,
                   outLinks, updateWaitList, waits, passes, orderState>>

\* module.deflate() on a module with the given entities, whose components have
\* the properties, values and links of the state, and newModule.inflate(json)
\* on a module without entities.
RoundTrip(entities) ==
    /\ Step
    /\ LET g == [value |-> value, il |-> inLinks, ol |-> outLinks]
           json == Module_deflate(g, entities)
       IN  last' = [op |-> "roundTrip", entities |-> entities,
                    result |-> Module_inflate(EmptyModule, json)]
    /\ log' = <<>>
    /\ UNCHANGED <<lock, pset, scheduler, componentList, initList, sortRequested, inLinks,
                   outLinks, value, pchanged, changed, updateWaitList, waits,
                   passes, orderState>>

\* lock.guard(fn) is called by the caller i: guard calls acquire(), which
\* stops at `await this.promise'.
Lock_guard(i) ==
    /\ lock.pc[i] = "idle"
    /\ lock' = Await([lock EXCEPT !.pc[i] = "acquiring"], i, lock.promise)
    /\ UNCHANGED <<pset, scheduler, componentList, initList, sortRequested, inLinks,
                   outLinks, value, pchanged, changed, updateWaitList, waits,
                   passes, orderState, log, last, steps>>

\* The first microtask of the queue runs: the continuation of acquire() after
\* its await, or the continuation of guard() after `await this.acquire()',
\* which calls fn().
RunMicrotask ==
    /\ lock.microtasks # <<>>
    /\ LET i == Head(lock.microtasks)
       IN  lock' = IF lock.pc[i] = "acquiring"
                   THEN Lock_acquired(lock, i)
                   ELSE [lock EXCEPT !.pc[i] = "inFn", !.microtasks = Tail(@)]
    /\ UNCHANGED <<pset, scheduler, componentList, initList, sortRequested, inLinks,
                   outLinks, value, pchanged, changed, updateWaitList, waits,
                   passes, orderState, log, last, steps>>

\* The promise of fn() of the caller i settles: guard's finally block calls
\* release().
FnReturns(i) ==
    /\ lock.pc[i] = "inFn"
    /\ lock' = Lock_release([lock EXCEPT !.pc[i] = "done"])
    /\ UNCHANGED <<pset, scheduler, componentList, initList, sortRequested, inLinks,
                   outLinks, value, pchanged, changed, updateWaitList, waits,
                   passes, orderState, log, last, steps>>

\* sorter.sort(linkables) on a LinkableSorter, with a list of components that
\* the caller supplies.
Sort(linkables) ==
    /\ Step
    /\ last' = [op |-> "sorter", linkables |-> linkables,
                result |-> LinkableSorter_sort(linkables, outLinks)]
    /\ log' = <<>>
    /\ UNCHANGED <<lock, pset, scheduler, componentList, initList, sortRequested,
                   inLinks, outLinks, value, pchanged, changed, updateWaitList,
                   waits, passes, orderState>>

\* System.sort()
System_sort ==
    /\ Step
    /\ scheduler = "System"
    /\ componentList' = LinkableSorter_sort(componentList, outLinks)
    /\ orderState' = "sorted"
    /\ last' = [op |-> "sort", before |-> componentList,
                wasSorted |-> orderState = "sorted"]
    /\ log' = <<>>
    /\ UNCHANGED <<lock, pset, scheduler, initList, sortRequested, inLinks, outLinks, value,
                   pchanged, changed, updateWaitList, waits, passes>>

\* System.waitForUpdate(): the promise's resolve() is appended to the wait list.
WaitForUpdate ==
    /\ Step
    /\ scheduler = "System"
    /\ Len(waits) < MaxWaits
    /\ waits' = Append(waits, [at |-> passes, by |-> 0, count |-> 0])
    /\ updateWaitList' = System_pushWait(updateWaitList, Len(waits) + 1)
    /\ last' = [op |-> "waitForUpdate"]
    /\ log' = <<>>
    /\ UNCHANGED <<lock, pset, scheduler, componentList, initList, sortRequested, inLinks,
                   outLinks, value, pchanged, changed, passes, orderState>>

\* System.update(): create() on the new components, the update loop, then the
\* pending waitForUpdate() requests.  An exception out of the loop leaves the
\* method before the requests are resolved.
System_update(hooks) ==
    /\ Step
    /\ scheduler = "System"
    /\ LET w == UpdateWalk(PropX, componentList, hooks, <<>>)
       IN  /\ ApplyX(w)
           /\ orderState' = IF w.ol # outLinks THEN "stale" ELSE orderState
           /\ log' = w.log
           /\ waits' = IF w.thrown THEN waits
                       ELSE System_resolveAll(waits, updateWaitList, passes + 1)
           /\ updateWaitList' = IF w.thrown THEN updateWaitList
                                ELSE System_clearWaitList(updateWaitList)
           /\ passes' = IF w.thrown THEN passes ELSE passes + 1
           /\ last' = [op |-> "update", order |-> componentList, start |-> changed,
                       stale |-> orderState = "stale",
                       resolved |-> IF w.thrown THEN <<>> ELSE updateWaitList,
                       thrown |-> w.thrown]
    /\ initList' = <<>>
    /\ UNCHANGED <<lock, pset, scheduler, componentList, sortRequested>>

\* System.tick()
System_tick ==
    /\ Step
    /\ scheduler = "System"
    /\ log' = TickWalk(componentList)
    /\ last' = [op |-> "tick"]
    /\ UNCHANGED <<lock, pset, scheduler, componentList, initList, sortRequested, inLinks,
                   outLinks, value, pchanged, changed, updateWaitList, waits,
                   passes, orderState>>

\* Performer.advance(): one cycle, system.update() and then system.tick().
\* An exception out of system.update() leaves advance() before system.tick().
Performer_advance(hooks) ==
    /\ Step
    /\ scheduler = "System"
    /\ LET w == UpdateWalk(PropX, componentList, hooks, <<>>)
       IN  /\ ApplyX(w)
           /\ orderState' = IF w.ol # outLinks THEN "stale" ELSE orderState
           /\ log' = IF w.thrown THEN w.log ELSE w.log \o TickWalk(componentList)
           /\ waits' = IF w.thrown THEN waits
                       ELSE System_resolveAll(waits, updateWaitList, passes + 1)
           /\ updateWaitList' = IF w.thrown THEN updateWaitList
                                ELSE System_clearWaitList(updateWaitList)
           /\ passes' = IF w.thrown THEN passes ELSE passes + 1
           /\ last' = [op |-> "advance", order |-> componentList, start |-> changed,
                       stale |-> orderState = "stale",
                       resolved |-> IF w.thrown THEN <<>> ELSE updateWaitList,
                       thrown |-> w.thrown]
    /\ initList' = <<>>
    /\ UNCHANGED <<lock, pset, scheduler, componentList, sortRequested>>

\* Module.requestSort()
Module_requestSort ==
    /\ Step
    /\ scheduler = "Module"
    /\ sortRequested' = TRUE
    /\ last' = [op |-> "requestSort"]
    /\ log' = <<>>
    /\ UNCHANGED <<lock, pset, scheduler, componentList, initList, inLinks, outLinks, value,
                   pchanged, changed, updateWaitList, waits, passes, orderState>>

\* Module.update(context): the sort if one was requested, then the update loop.
Module_update(hooks) ==
    /\ Step
    /\ scheduler = "Module"
    /\ LET list == IF sortRequested
                   THEN LinkableSorter_sort(componentList, outLinks)
                   ELSE componentList
           state == IF sortRequested THEN "sorted" ELSE orderState
           w == UpdateWalk(PropX, list, hooks, <<>>)
       IN  /\ componentList' = list
           /\ orderState' = IF w.ol # outLinks THEN "stale" ELSE state
           /\ ApplyX(w)
           /\ log' = w.log
           /\ last' = [op |-> "update", order |-> list, start |-> changed,
                       stale |-> state = "stale", resolved |-> <<>>,
                       thrown |-> w.thrown]
           /\ passes' = IF w.thrown THEN passes ELSE passes + 1
    /\ sortRequested' = FALSE
    /\ UNCHANGED <<lock, pset, scheduler, initList, updateWaitList, waits>>

\* Module.tick(context)
Module_tick ==
    /\ Step
    /\ scheduler = "Module"
    /\ log' = TickWalk(componentList)
    /\ last' = [op |-> "tick"]
    /\ UNCHANGED <<lock, pset, scheduler, componentList, initList, sortRequested, inLinks,
                   outLinks, value, pchanged, changed, updateWaitList, waits,
                   passes, orderState>>

\* ------------------------------------------------------- specifications
\* The calls of linkFrom that succeed.
CanLink(d, s, si, di) == Property_canLinkFrom(d, s, si, di) = "true"

\* The num0 properties, between which the links of Spec and SortSpec run.
NumProps == {p \in Props : p.key = "num0"}

\* The scheduler: links between the num0 properties, values set from outside,
\* sorts, update passes, ticks, cycles and waitForUpdate() requests.
Init == Start({"System", "Module"}, MaxSteps)

Next ==
    \/ \E d, s \in NumProps :
          CanLink(d, s, NoIndex, NoIndex) /\ LinkFrom(d, s, NoIndex, NoIndex)
    \/ \E l \in AllLinks(outLinks) :
          UnlinkFrom(l.destination, l.source, l.sourceIndex, l.destinationIndex)
    \/ \E p \in NumProps : SetValue(p, 1)
    \/ System_sort
    \/ WaitForUpdate
    \/ \E hooks \in Hooks : System_update(hooks)
    \/ System_tick
    \/ \E hooks \in Hooks : Performer_advance(hooks)
    \/ Module_requestSort
    \/ \E hooks \in Hooks : Module_update(hooks)
    \/ Module_tick

Spec == Init /\ [][Next]_vars

\* The sorter: links between the num0 properties are made and removed, and
\* System.sort() sorts the list it is given.
SortInit == Start({"System"}, MaxSortSteps)

SortNext ==
    \/ \E d, s \in NumProps :
          CanLink(d, s, NoIndex, NoIndex) /\ LinkFrom(d, s, NoIndex, NoIndex)
    \/ \E l \in AllLinks(outLinks) :
          UnlinkFrom(l.destination, l.source, l.sourceIndex, l.destinationIndex)
    \/ System_sort

SortSpec == SortInit /\ [][SortNext]_vars

\* The property graph: links of every shape, with and without element indices,
\* from the outputs of component 1 and the inputs of component 2 to the inputs
\* of components 2 and 3, and values set on these properties.
LinkSources ==
    {Prop(1, "outs", "num0"), Prop(1, "outs", "vec2"),
     Prop(2, "ins", "num0"), Prop(2, "ins", "vec2")}

LinkDests ==
    {Prop(2, "ins", "num0"), Prop(2, "ins", "vec2"), Prop(3, "ins", "num0")}

Indices == {NoIndex, 0, 1}

ValuesOf(p) == IF Elements(p) > 1 THEN {<<1, 2>>, <<2, 1>>} ELSE {1, 2}

LinkInit == Start({"System"}, MaxLinkSteps)

LinkNext ==
    \/ \E d \in LinkDests, s \in LinkSources : \E si, di \in Indices :
          CanLink(d, s, si, di) /\ LinkFrom(d, s, si, di)
    \/ \E l \in AllLinks(outLinks) :
          UnlinkFrom(l.destination, l.source, l.sourceIndex, l.destinationIndex)
    \/ \E p \in LinkSources \cup LinkDests : \E v \in ValuesOf(p) : SetValue(p, v)

LinkSpec == LinkInit /\ [][LinkNext]_vars

\* The calls on properties, those that fail included: links between numbers
\* and between objects, of an output to an input and of an input to an input,
\* asked for once, twice, or where canLinkFrom does not hold; links removed
\* one by one, by unlink() and by dispose(); values set and reset.
ApiLinks ==
    {Link(Prop(1, "outs", "obj0"), Prop(2, "ins", "obj0"), NoIndex, NoIndex),
     Link(Prop(2, "ins", "obj0"), Prop(3, "ins", "obj0"), NoIndex, NoIndex),
     Link(Prop(1, "outs", "num0"), Prop(2, "ins", "num0"), NoIndex, NoIndex),
     Link(Prop(1, "outs", "num0"), Prop(2, "ins", "obj0"), NoIndex, NoIndex),
     Link(Prop(2, "ins", "obj0"), Prop(1, "outs", "obj0"), NoIndex, NoIndex),
     Link(Prop(1, "outs", "num0"), Prop(2, "ins", "num0"), 0, NoIndex)}

ApiProps ==
    {l.source : l \in ApiLinks} \cup {l.destination : l \in ApiLinks}
        \cup {Prop(3, "ins", "mul0")}

ApiValue(p) == IF PropType(p) = "object" THEN "o1" ELSE 1

ApiInit == Start({"System"}, MaxApiSteps)

ApiNext ==
    \/ \E l \in ApiLinks :
          LinkFrom(l.destination, l.source, l.sourceIndex, l.destinationIndex)
    \/ \E l \in ApiLinks :
          UnlinkFrom(l.destination, l.source, l.sourceIndex, l.destinationIndex)
    \/ \E p \in ApiProps : Unlink(p)
    \/ \E c \in Comps : ComponentUnlink(c)
    \/ \E c \in Comps : Dispose(c)
    \/ \E p \in ApiProps : Reset(p)
    \/ \E p \in ApiProps : p.set = "outs" /\ SetValue(p, ApiValue(p))

ApiSpec == ApiInit /\ [][ApiNext]_vars

\* canLinkFrom, asked about every pair of properties of every shape and type,
\* with and without element indices.
MatrixProps ==
    [c : {1}, set : Sets,
     key : {Keys[i] : i \in 1..Len(Keys)} \cup {MoreKeys[i] : i \in 1..Len(MoreKeys)}]

MatrixIndices == {NoIndex, 0, 2}

CanLinkInit == Start({"System"}, MaxQueries)

CanLinkNext ==
    \E d, s \in MatrixProps : \E si, di \in MatrixIndices : CanLinkFrom(d, s, si, di)

CanLinkSpec == CanLinkInit /\ [][CanLinkNext]_vars

\* A property set: properties are added one by one and two at a time, with
\* keys and paths that are new to the set and with keys and paths it has.
SetEntries ==
    {<<[key |-> k1, property |-> p1], [key |-> k2, property |-> p2]>> :
        k1 \in {"a", "b"}, k2 \in {"b", "c"}, p1 \in {q \in SetProps : q.key = ""},
        p2 \in {q \in SetProps : q.key = ""}} \ 
    {<<[key |-> "b", property |-> p1], [key |-> "b", property |-> p2]>> :
        p1 \in SetProps, p2 \in SetProps}

SetInit == Start({"System"}, MaxSetSteps)

SetNext ==
    \/ \E property \in SetProps : SetAdd(property)
    \/ \E entries \in SetEntries : SetAppend(entries)

SetSpec == SetInit /\ [][SetNext]_vars

\* A property set to which properties are added and from which properties
\* are removed: those it has and those it does not have.
RemoveInit == Start({"System"}, MaxRemoveSteps)

RemoveNext ==
    \/ \E property \in SetProps : SetAdd(property)
    \/ \E property \in SetProps : SetRemove(property)

RemoveSpec == RemoveInit /\ [][RemoveNext]_vars

\* Passes over components whose update() may throw: links between the num0
\* properties, values set from outside, waitForUpdate() requests, and the
\* passes and cycles of both schedulers.
FailInit == Start({"System", "Module"}, MaxFailSteps)

FailNext ==
    \/ \E d, s \in NumProps :
          CanLink(d, s, NoIndex, NoIndex) /\ LinkFrom(d, s, NoIndex, NoIndex)
    \/ \E p \in NumProps : SetValue(p, 1)
    \/ WaitForUpdate
    \/ \E hooks \in ThrowingHooks : System_update(hooks)
    \/ \E hooks \in ThrowingHooks : Performer_advance(hooks)
    \/ \E hooks \in ThrowingHooks : Module_update(hooks)

FailSpec == FailInit /\ [][FailNext]_vars

\* Values set and pushed: links between the num0 properties of a chain of
\* components, values given to them with setValue, push and pushValue, and
\* update passes, after which the changed flags are clear.
PushProps ==
    {Prop(1, "outs", "num0"), Prop(2, "ins", "num0"), Prop(2, "outs", "num0"),
     Prop(3, "ins", "num0")}

Quiet == [c \in Comps |-> "noop"]

PushInit == Start({"System"}, MaxPushSteps)

PushNext ==
    \/ \E d, s \in PushProps :
          CanLink(d, s, NoIndex, NoIndex) /\ LinkFrom(d, s, NoIndex, NoIndex)
    \/ \E p \in PushProps : \E v \in {1, 2} : SetValue(p, v)
    \/ \E p \in PushProps : Push(p)
    \/ \E p \in PushProps : PushValue(p, 2)
    \/ System_update(Quiet)

PushSpec == PushInit /\ [][PushNext]_vars

\* Serialization: links between the properties of PushProps, values set on
\* them, and the round trip of a module that holds none, some or all of the
\* components, in one or two entities.
ModuleEntities ==
    {<<>>,
     <<Entity("e1", "", <<>>)>>,
     <<Entity("e1", "first", <<>>), Entity("e2", "", <<>>)>>,
     <<Entity("e1", "", <<1>>)>>,
     <<Entity("e1", "", <<1, 2>>), Entity("e2", "", <<3>>)>>}

RoundInit == Start({"Module"}, MaxRoundSteps)

RoundNext ==
    \/ \E d, s \in PushProps :
          CanLink(d, s, NoIndex, NoIndex) /\ LinkFrom(d, s, NoIndex, NoIndex)
    \/ \E p \in PushProps : SetValue(p, 1)
    \/ \E entities \in ModuleEntities : RoundTrip(entities)

RoundSpec == RoundInit /\ [][RoundNext]_vars

\* The lock: every caller calls guard once, at any time; the microtasks run
\* in the order in which they were queued; a guarded function returns at any
\* time after it has started.
LockInit == Start({"System"}, 0)

LockNext ==
    \/ \E i \in Callers : Lock_guard(i)
    \/ RunMicrotask
    \/ \E i \in Callers : FnReturns(i)

LockSpec == LockInit /\ [][LockNext]_vars

\* Passes over linked components: the output of a component is linked to the
\* input of one that stands later in the list or earlier, inputs are given
\* values with setValue and push, the list is sorted, and passes run in which the components forward
\* their input to their output or do nothing.
PassLinks ==
    {Link(Prop(1, "outs", "num0"), Prop(2, "ins", "num0"), NoIndex, NoIndex),
     Link(Prop(2, "outs", "num0"), Prop(3, "ins", "num0"), NoIndex, NoIndex),
     Link(Prop(3, "outs", "num0"), Prop(1, "ins", "num0"), NoIndex, NoIndex)}

PassInit == Start({"System"}, MaxPassSteps)

PassNext ==
    \/ \E l \in PassLinks :
          /\ CanLink(l.destination, l.source, l.sourceIndex, l.destinationIndex)
          /\ LinkFrom(l.destination, l.source, l.sourceIndex, l.destinationIndex)
    \/ \E c \in Comps : SetValue(Prop(c, "ins", "num0"), 1)
    \/ \E c \in Comps : Push(Prop(c, "ins", "num0"))
    \/ System_sort
    \/ \E hooks \in Hooks : System_update(hooks)

PassSpec == PassInit /\ [][PassNext]_vars

\* The sorter on its own: links between the num0 properties, cycles included,
\* and sort() on a list of all or of some of the components, in any order.
Supplied ==
    LET lists == {<<>>} \cup {<<a>> : a \in Comps}
                 \cup {<<a, b>> : a, b \in Comps}
                 \cup {<<a, b, c>> : a, b, c \in Comps}
    IN  {list \in lists : Cardinality(Range(list)) = Len(list)}

SorterInit == Start({"System"}, MaxSorterSteps)

SorterNext ==
    \/ \E d, s \in NumProps :
          CanLink(d, s, NoIndex, NoIndex) /\ LinkFrom(d, s, NoIndex, NoIndex)
    \/ \E linkables \in Supplied : Sort(linkables)

SorterSpec == SorterInit /\ [][SorterNext]_vars

\* Passes over components whose update() makes and removes links: values
\* are set from outside, and both schedulers run passes.
RelinkInit == Start({"System", "Module"}, MaxRelinkSteps)

RelinkNext ==
    \/ \E c \in Comps : SetValue(Prop(c, "outs", "num0"), 1)
    \/ \E hooks \in LinkingHooks : System_update(hooks)
    \/ \E hooks \in LinkingHooks : Module_update(hooks)

RelinkSpec == RelinkInit /\ [][RelinkNext]_vars

\* ================================================================ claims
\* The index of component c in the scheduler's list.
Pos(c) == IndexOf(componentList, c)

\* The last operation was an update pass (alone, or as the first half of a cycle).
AfterPass == last.op \in {"update", "advance"}

\* The place in the log of the update() call on c in the last pass; 0 if none.
CalledAt(c) ==
    IF \E i \in 1..Len(log) : log[i].op = "update" /\ log[i].c = c /\ log[i].called
    THEN CHOOSE i \in 1..Len(log) :
             log[i].op = "update" /\ log[i].c = c /\ log[i].called
    ELSE 0

\* ---------------------------------------------------------------- C1
\* C1: after a sort of a collection whose link graph is acyclic, every
\* component with an output linked to an input of another component stands
\* before that component in the list, and the list still holds every
\* component once.
C1_TopologicalOrder ==
    (last.op = "sort" /\ Acyclic(outLinks)) =>
        /\ Range(componentList) = Comps /\ Len(componentList) = Cardinality(Comps)
        /\ \A a, b \in Comps : OutInLinked(a, b, outLinks) => Pos(a) < Pos(b)

\* A chain 3 -> 1 -> 2 against the order of the list given, sorted into chain order.
C1_Witness ==
    /\ last.op = "sort"
    /\ last.before = <<1, 2, 3>>
    /\ Acyclic(outLinks)
    /\ OutInLinked(3, 1, outLinks) /\ OutInLinked(1, 2, outLinks)
    /\ componentList = <<3, 1, 2>>

\* ---------------------------------------------------------------- C2
\* C2: in an update pass over an acyclic link graph, if an output of a is
\* linked to an input of b and both are changed when the pass begins, update()
\* is called on both and on a before b.
C2_ProducerFirst ==
    (AfterPass /\ Acyclic(outLinks)) =>
        \A a, b \in Comps :
            (OutInLinked(a, b, outLinks) /\ last.start[a] /\ last.start[b]) =>
                /\ CalledAt(a) > 0
                /\ CalledAt(a) < CalledAt(b)

\* ---------------------------------------------------------------- C4
RECURSIVE OutInClosure(_, _)
\* The components of cs and those reachable from them over output-to-input links.
OutInClosure(cs, ol) ==
    LET next == cs \cup {b \in Comps : \E a \in cs : OutInLinked(a, b, ol)}
    IN  IF next = cs THEN cs ELSE OutInClosure(next, ol)

\* The output-to-input links order every pair of components.
TotallyOrdered(ol) ==
    \A a, b \in Comps :
        a # b => \/ b \in OutInClosure({a}, ol)
                 \/ a \in OutInClosure({b}, ol)

C5_NoStaleWalk == AfterPass => ~last.stale

C8_WaitResolvedOnce ==
    /\ \A id \in 1..Len(waits) :
          /\ waits[id].count <= 1
          /\ waits[id].count = 1 => waits[id].by = waits[id].at + 1
          /\ waits[id].count = 0 =>
                /\ waits[id].at = passes
                /\ id \in Range(updateWaitList)
    /\ (AfterPass /\ scheduler = "System") =>
          /\ updateWaitList = <<>>
          /\ \A i, j \in 1..Len(last.resolved) :
                i < j => last.resolved[i] < last.resolved[j]

\* Two requests resolved by one pass.
C8_Witness ==
    /\ AfterPass
    /\ Len(last.resolved) = 2
    /\ \A id \in 1..Len(waits) : waits[id].count = 1

\* ---------------------------------------------------------------- C3
\* The value a link reads in the state val, and the value it has written.
SrcSlot(val, l) ==
    IF l.sourceIndex >= 0 THEN val[l.source][l.sourceIndex + 1] ELSE val[l.source]

DstSlot(val, l) ==
    IF l.destinationIndex >= 0
    THEN val[l.destination][l.destinationIndex + 1]
    ELSE val[l.destination]

\* The destination of l holds what the source of l holds.
Carries(l) == DstSlot(value, l) = SrcSlot(value, l)

\* The links that leave p or a property reachable from p.
ForwardLinks(p) ==
    {l \in AllLinks(outLinks) : l.source \in {p} \cup PropReachable(p, outLinks)}

\* The destination of l has no other inbound link.
OnlyInLink(l) == Len(inLinks[l.destination]) = 1

\* C3: when setValue(v) on p has returned, p holds v, every link on a path
\* from p whose destination no other link writes carries its source's value,
\* and every property reachable from p holds the value of one of the links
\* that arrive at it on a path from p.
C3_SynchronousPropagation ==
    last.op = "setValue" =>
        /\ value[last.p] = last.v
        /\ \A l \in ForwardLinks(last.p) : OnlyInLink(l) => Carries(l)
        /\ \A q \in PropReachable(last.p, outLinks) :
              \E l \in ForwardLinks(last.p) : l.destination = q /\ Carries(l)

\* A new value has arrived two links away from the property that was set.
C3_Witness ==
    /\ last.op = "setValue"
    /\ \E l1, l2 \in ForwardLinks(last.p) :
          /\ l1.source = last.p /\ l2.source = l1.destination
          /\ OnlyInLink(l1) /\ OnlyInLink(l2)
          /\ l1.sourceIndex = NoIndex /\ l1.destinationIndex = NoIndex
          /\ l2.sourceIndex = NoIndex /\ l2.destinationIndex = NoIndex
          /\ value[l2.destination] = last.v
          /\ value[l2.destination] # last.before[l2.destination]

\* ---------------------------------------------------------------- C9
\* C9: after a successful linkFrom the link is in the destination's list of
\* inbound links and in the source's list of outbound links, the source holds
\* the value it held, and the destination holds that value (in the linked
\* element, where the link has an index).
C9_LinkRegistersAndPushes ==
    (last.op = "linkFrom" /\ ~last.thrown) =>
        LET l == last.link
        IN  /\ Len(inLinks[l.destination]) > 0
            /\ inLinks[l.destination][Len(inLinks[l.destination])] = l
            /\ Len(outLinks[l.source]) > 0
            /\ outLinks[l.source][Len(outLinks[l.source])] = l
            /\ value[l.source] = last.before[l.source]
            /\ Carries(l)

\* Linking has changed the destination's value to the source's.
C9_Witness ==
    /\ last.op = "linkFrom" /\ ~last.thrown
    /\ last.link.sourceIndex = NoIndex /\ last.link.destinationIndex = NoIndex
    /\ value[last.link.destination] # last.before[last.link.destination]
    /\ value[last.link.destination] = value[last.link.source]

\* ---------------------------------------------------------------- C10
\* C10: when setValue on p has returned, then for every link on a path from p
\* whose destination no other link writes: if the link has a source index i
\* and no destination index, the destination holds element i of the source's
\* value; if it has a destination index j and no source index, element j of
\* the destination holds the source's value and the other elements of the
\* destination are what they were before.
C10_ElementLinks ==
    last.op = "setValue" =>
        \A l \in ForwardLinks(last.p) : OnlyInLink(l) =>
            LET s == l.source
                d == l.destination
                i == l.sourceIndex
                j == l.destinationIndex
                a == IF s = last.p THEN last.v ELSE value[s]
            IN  /\ (i >= 0 /\ j = NoIndex) => value[d] = a[i + 1]
                /\ (i = NoIndex /\ j >= 0) =>
                      /\ value[d][j + 1] = a
                      /\ \A k \in 1..Len(value[d]) :
                            k # j + 1 => value[d][k] = last.before[d][k]

\* An array was set; one of its elements has arrived in a number, and from
\* there in one element of another array, whose other element is as it was.
C10_Witness ==
    /\ last.op = "setValue"
    /\ \E l1, l2 \in ForwardLinks(last.p) :
          /\ l1.source = last.p /\ l2.source = l1.destination
          /\ OnlyInLink(l1) /\ OnlyInLink(l2)
          /\ l1.sourceIndex >= 0 /\ l1.destinationIndex = NoIndex
          /\ l2.sourceIndex = NoIndex /\ l2.destinationIndex >= 0
          /\ value[l1.destination] = last.v[l1.sourceIndex + 1]
          /\ value[l1.destination] # last.before[l1.destination]
          /\ value[l2.destination][l2.destinationIndex + 1] = value[l1.destination]
          /\ \E k \in 1..Len(value[l2.destination]) :
                /\ k # l2.destinationIndex + 1
                /\ value[l2.destination][k] # value[l1.destination]

\* ---------------------------------------------------------------- C11
\* C11: a linkFrom for which canLinkFrom does not return true throws, and
\* the link lists, the values and the changed flags are what they were.
C11_FailedLinkChangesNothing ==
    (/\ last.op = "linkFrom"
     /\ Property_canLinkFrom(last.link.destination, last.link.source,
                             last.link.sourceIndex, last.link.destinationIndex)
            # "true") =>
        /\ inLinks = last.pre.il
        /\ outLinks = last.pre.ol
        /\ last.thrown
        /\ PropState = last.pre.st

\* A number was to be linked into an object, in a graph that has a link.
C11_Witness ==
    /\ last.op = "linkFrom" /\ last.thrown
    /\ PropType(last.link.source) = "number"
    /\ PropType(last.link.destination) = "object"
    /\ NumLinks > 0
    /\ \E p \in Props : value[p] # Constructed(p)

\* ---------------------------------------------------------------- C12
\* An element index is supplied for a property that is not an array.
IndexOnScalar(p, i) == i >= 0 /\ Elements(p) = 1

\* C12 as claimed: canLinkFrom returns false where an element index is
\* supplied for a source or for a destination with one element.
C12_IndexOnScalarIsFalse ==
    (/\ last.op = "canLinkFrom"
     /\ IndexOnScalar(last.s, last.si) \/ IndexOnScalar(last.d, last.di)) =>
        last.result = "false"

\* C12 as amended: there canLinkFrom throws an Error where the destination is
\* an input, and returns false where the destination is an output.
C12_IndexOnScalarThrows ==
    (/\ last.op = "canLinkFrom"
     /\ IndexOnScalar(last.s, last.si) \/ IndexOnScalar(last.d, last.di)) =>
        last.result = IF last.d.set = "ins" THEN "throw" ELSE "false"

\* An element of a number was asked for, as the source of a link into an input.
C12_Witness ==
    /\ last.op = "canLinkFrom"
    /\ IndexOnScalar(last.s, last.si)
    /\ last.d.set = "ins" /\ last.di = NoIndex
    /\ last.result = "throw"

\* ---------------------------------------------------------------- C13
\* The index, where one is supplied, is an index of the array.
IndexFits(p, i) == i = NoIndex \/ (Elements(p) > 1 /\ i < Elements(p))

\* The side of a link is a whole array.
WholeArray(p, i) == Elements(p) > 1 /\ i = NoIndex

\* C13: for indices that fit, canLinkFrom returns false where the destination
\* is an output, where one side is a whole array and the other is not, where
\* both are whole arrays of different lengths, where both are objects of
\* different classes, and where one is an object and the other is not; it
\* returns true everywhere else.
C13_LinkMatrix ==
    (/\ last.op = "canLinkFrom"
     /\ IndexFits(last.s, last.si) /\ IndexFits(last.d, last.di)) =>
        LET s == last.s
            d == last.d
            denied ==
                \/ d.set = "outs"
                \/ WholeArray(s, last.si) # WholeArray(d, last.di)
                \/ /\ WholeArray(s, last.si) /\ WholeArray(d, last.di)
                   /\ Elements(s) # Elements(d)
                \/ /\ PropType(s) = "object" /\ PropType(d) = "object"
                   /\ ObjectType(s) # ObjectType(d)
                \/ (PropType(s) = "object") # (PropType(d) = "object")
        IN  last.result = IF denied THEN "false" ELSE "true"

\* The third element of an array of numbers may be linked into a boolean input.
C13_Witness ==
    /\ last.op = "canLinkFrom"
    /\ last.s.key = "vec3" /\ last.si = 2
    /\ last.d.key = "bool0" /\ last.d.set = "ins" /\ last.di = NoIndex
    /\ last.result = "true"

\* ---------------------------------------------------------------- C14
\* C14: no property has two inbound links with the same source, source index
\* and destination index.
C14_NoDuplicateLinks ==
    \A p \in Props : \A i, j \in 1..Len(inLinks[p]) :
        inLinks[p][i] = inLinks[p][j] => i = j

\* ---------------------------------------------------------------- C15
\* How often x is in seq.
Count(seq, x) == Cardinality({i \in 1..Len(seq) : seq[i] = x})

\* The list now is the list before without one of its entries l.
OneRemoved(now, before, l) ==
    /\ Len(now) = Len(before) - 1
    /\ Count(now, l) = Count(before, l) - 1
    /\ SelectSeq(now, LAMBDA k : k # l) = SelectSeq(before, LAMBDA k : k # l)

\* C15: unlinkFrom returns true where the destination has a link with the
\* source and the indices given, and then one such link has gone from the
\* destination's inbound list and one from the source's outbound list, all
\* other lists being as they were; it returns false where there is none, and
\* then every list and every value is as it was.
C15_UnlinkRemovesOne ==
    last.op = "unlinkFrom" =>
        LET l == last.link
            d == l.destination
            s == l.source
        IN  IF Count(last.pre.il[d], l) > 0
            THEN /\ last.ret
                 /\ OneRemoved(inLinks[d], last.pre.il[d], l)
                 /\ OneRemoved(outLinks[s], last.pre.ol[s], l)
                 /\ \A q \in Props \ {d} : inLinks[q] = last.pre.il[q]
                 /\ \A q \in Props \ {s} : outLinks[q] = last.pre.ol[q]
            ELSE /\ ~last.ret
                 /\ inLinks = last.pre.il
                 /\ outLinks = last.pre.ol
                 /\ value = last.pre.st.value

\* One of two links of a graph has been removed.
C15_Witness ==
    /\ last.op = "unlinkFrom" /\ last.ret
    /\ NumLinks = 1
    /\ Len(last.pre.il[last.link.destination]) = 1

\* ---------------------------------------------------------------- C16
\* C16 as claimed: unlinkFrom throws where the destination has no link with
\* the source and the indices given.
C16_UnknownLinkThrows ==
    (/\ last.op = "unlinkFrom"
     /\ Count(last.pre.il[last.link.destination], last.link) = 0) =>
        last.thrown

\* C16 as amended: there unlinkFrom throws nothing; it returns false.
C16_UnknownLinkReturnsFalse ==
    (/\ last.op = "unlinkFrom"
     /\ Count(last.pre.il[last.link.destination], last.link) = 0) =>
        ~last.thrown /\ last.ret = FALSE

\* A link was to be removed from a destination that has another link only.
C16_Witness ==
    /\ last.op = "unlinkFrom"
    /\ Count(last.pre.il[last.link.destination], last.link) = 0
    /\ Len(inLinks[last.link.destination]) > 0
    /\ ~last.thrown /\ ~last.ret

\* ---------------------------------------------------------------- C17
\* C17: an object property that had inbound links before unlinkFrom, unlink,
\* Component.unlink or dispose, and has none after it, holds its preset.
C17_LastLinkGoneResets ==
    last.op \in {"unlinkFrom", "unlink", "componentUnlink", "dispose"} =>
        \A p \in Props :
            (/\ PropType(p) = "object"
             /\ Len(last.pre.il[p]) > 0
             /\ Len(inLinks[p]) = 0) =>
                value[p] = Preset(p)

\* ---------------------------------------------------------------- C18
\* C18: reset() on a property with an inbound link throws, and the property's
\* value, flag and lists are what they were; on a property without one it
\* leaves the property with the value it was constructed with, from the
\* preset, and every outbound link carries that value.
C18_ResetToPreset ==
    last.op = "reset" =>
        LET p == last.p
        IN  IF Len(last.pre.il[p]) > 0
            THEN /\ last.thrown
                 /\ value[p] = last.pre.st.value[p]
                 /\ pchanged[p] = last.pre.st.pchanged[p]
                 /\ inLinks = last.pre.il /\ outLinks = last.pre.ol
            ELSE /\ ~last.thrown
                 /\ value[p] = Constructed(p)
                 /\ \A l \in Range(outLinks[p]) : Carries(l)

\* ---------------------------------------------------------------- C19
\* The links that are in a list of some property.
LinksAnywhere == AllLinks(inLinks) \cup AllLinks(outLinks)

\* C19: a link is as often in its destination's inbound list as in its
\* source's outbound list; after unlink() on a property no list holds a link
\* from it or to it, and after Component.unlink() or dispose() no list holds a
\* link from or to a property of the component.
C19_LinksOnBothSides ==
    /\ \A l \in LinksAnywhere :
          Count(inLinks[l.destination], l) = Count(outLinks[l.source], l)
    /\ last.op = "unlink" =>
          \A l \in LinksAnywhere : l.source # last.p /\ l.destination # last.p
    /\ last.op \in {"componentUnlink", "dispose"} =>
          \A l \in LinksAnywhere : l.source.c # last.c /\ l.destination.c # last.c

\* A component with links from two of its properties has been disposed of;
\* a link between other components is still there.
C19_Witness ==
    /\ last.op = "dispose" /\ ~last.thrown
    /\ \E l, k \in AllLinks(last.pre.ol) :
          l.source.c = last.c /\ k.source.c = last.c /\ l.source # k.source
    /\ NumLinks > 0
    /\ last.c \notin Range(componentList)

\* ---------------------------------------------------------------- C20
\* C20: no two properties in the list of a set have the same key and no two
\* have the same path; an add of a property whose key or whose path a property
\* of the set has throws, and leaves the list and the lookups as they were.
C20_UniqueKeysAndPaths ==
    /\ \A i, j \in 1..Len(pset.properties) :
          i # j => /\ pset.properties[i].key # pset.properties[j].key
                   /\ pset.properties[i].path # pset.properties[j].path
    /\ last.op = "add" =>
          ((\E i \in 1..Len(last.pre.properties) :
                \/ last.pre.properties[i].key = last.property.key
                \/ last.pre.properties[i].path = last.property.path)
            => last.thrown /\ pset = last.pre)

\* ---------------------------------------------------------------- C21
\* C21: when update() of a component throws during a pass, the pass ends with
\* that exception: the call that threw is the last hook call of the pass, so no
\* component after it in the order is updated (and, in a cycle, none is
\* ticked), the thrower keeps its changed flag, and the pending
\* waitForUpdate() requests stay pending.
C21_ThrowEndsPass ==
    AfterPass =>
        /\ \A i \in 1..Len(log) :
              (log[i].op = "update" /\ log[i].threw) =>
                  /\ last.thrown
                  /\ i = Len(log)
                  /\ changed[log[i].c]
                  /\ \A j \in 1..Len(last.order) :
                        j > i => ~\E k \in 1..Len(log) : log[k].c = last.order[j]
        /\ last.thrown =>
              /\ \E i \in 1..Len(log) : log[i].op = "update" /\ log[i].threw
              /\ \A id \in Range(updateWaitList) : waits[id].count = 0

\* A pass in which update() threw before the end of the list, and a component
\* after the thrower had its changed flag set and was not updated.
C21_Witness ==
    /\ AfterPass
    /\ last.thrown
    /\ Len(log) < Len(last.order)
    /\ \E j \in (Len(log) + 1)..Len(last.order) : last.start[last.order[j]]
    /\ updateWaitList # <<>>

\* ---------------------------------------------------------------- C22
\* The property p has its flag set, and every link that leaves it has brought
\* its value to the destination and set the destination's flag.
Forwarded(p) ==
    /\ pchanged[p]
    /\ \A l \in Range(outLinks[p]) : Carries(l) /\ pchanged[l.destination]

\* C22 as stated: setValue(v) and push() on a property of a set set its changed
\* flag, forward the value through every outbound link, and leave the changed
\* flag of the owning component set.
C22_SetAndPushMarkOwner ==
    last.op \in {"setValue", "push"} =>
        Forwarded(last.p) /\ changed[last.p.c]

\* C22, amended: setValue(v) does all three; push() and pushValue(v) set the
\* property's flag and forward the value through every outbound link, and
\* mark the components of the properties the value arrives at, but not the
\* owner: its flag is set afterwards only if it was set before or if the value
\* arrived at one of its own properties.
C22_SetMarksOwnerPushDoesNot ==
    /\ last.op = "setValue" =>
          Forwarded(last.p) /\ value[last.p] = last.v /\ changed[last.p.c]
    /\ last.op \in {"push", "pushValue"} =>
          /\ Forwarded(last.p)
          /\ \A l \in Range(outLinks[last.p]) : changed[l.destination.c]
          /\ changed[last.p.c] <=>
                \/ last.flags[last.p.c]
                \/ \E q \in PropReachable(last.p, outLinks) : q.c = last.p.c
    /\ last.op = "push" => value[last.p] = last.before[last.p]
    /\ last.op = "pushValue" => value[last.p] = last.v

\* push() on a property with an outbound link, of a component whose changed
\* flag was clear: the value has arrived, the owner's flag is still clear.
C22_Witness ==
    /\ last.op = "push"
    /\ outLinks[last.p] # <<>>
    /\ ~last.flags[last.p.c]
    /\ ~changed[last.p.c]
    /\ \E l \in Range(outLinks[last.p]) : changed[l.destination.c]

\* ---------------------------------------------------------------- C23
\* The links of the state between the properties of the given components.
LinksAmong(comps) ==
    {l \in AllLinks(outLinks) : l.source.c \in comps /\ l.destination.c \in comps}

\* C23: deflate and then inflate into an empty module does not throw and gives
\* the same entities with the same components, the same value for every
\* property, and the same links between the same properties with the same
\* element indices.
C23_RoundTrip ==
    last.op = "roundTrip" =>
        LET comps == ModuleComponents(last)
        IN  /\ ~last.result.thrown
            /\ last.result.entities = last.entities
            /\ \A p \in Props : p.c \in comps => last.result.value[p] = value[p]
            /\ last.result.links = LinksAmong(comps)

\* ---------------------------------------------------------------- C24
\* C24: every component is updated in the first pass, as it is created with
\* its changed flag set; in a later pass update() is called on a component
\* only if one of its inputs has received a value since the component was
\* last updated, that is, only if one of its inputs has its changed flag set
\* when the walk reaches the component.
C24_UpdateOnlyAfterInput ==
    AfterPass =>
        /\ passes = 1 =>
              \A c \in Range(last.order) : CalledAt(c) > 0
        /\ passes > 1 =>
              \A i \in 1..Len(log) :
                  (log[i].op = "update" /\ log[i].called) => log[i].insChangedBefore

\* ---------------------------------------------------------------- C25
\* C25: at most one guarded function is executing at any time.
C25_MutualExclusion ==
    Cardinality({i \in Callers : lock.pc[i] = "inFn"}) <= 1

\* ---------------------------------------------------------------- C26
\* The component a forwards into b: the output that a's update() sets is
\* linked to an input of b.
FeedsInto(a, b) ==
    \E l \in Range(outLinks[Prop(a, "outs", "num0")]) :
        l.destination.c = b /\ l.destination.set = "ins"

\* The place of the component c in the walk of the last pass.
WalkPos(c) == IndexOf(last.order, c)

\* C26: when update() of a component a sets an output that is linked to an
\* input of a component b, then b, if it stands later in the walk, is updated
\* in the same pass, also when its changed flag was clear at the start of the
\* pass; if it stands earlier, it is not visited again and has its changed
\* flag set when the pass has ended.
C26_MidPassChange ==
    (AfterPass /\ ~last.thrown) =>
        \A a, b \in Comps :
            (/\ a # b
             /\ FeedsInto(a, b)
             /\ CalledAt(a) > 0
             /\ log[CalledAt(a)].hook = "forward") =>
                /\ WalkPos(b) > WalkPos(a) => CalledAt(b) > CalledAt(a)
                /\ WalkPos(b) < WalkPos(a) =>
                      /\ changed[b]
                      /\ Cardinality({i \in 1..Len(log) :
                             log[i].op = "update" /\ log[i].c = b}) = 1

\* A pass in which a component whose flag was clear at the start was updated
\* because a component before it forwarded a value to it.
C26_Witness ==
    /\ AfterPass
    /\ \E a, b \in Comps :
          /\ FeedsInto(a, b) /\ WalkPos(a) < WalkPos(b)
          /\ CalledAt(a) > 0 /\ log[CalledAt(a)].hook = "forward"
          /\ ~last.start[b] /\ CalledAt(b) > CalledAt(a)

\* ---------------------------------------------------------------- C27
\* C27: sort() returns a permutation of the list it is given, whatever the
\* links, cycles and links to components outside of the list included.
C27_SortPermutes ==
    last.op = "sorter" =>
        /\ Len(last.result) = Len(last.linkables)
        /\ Range(last.result) = Range(last.linkables)

\* ---------------------------------------------------------------- C28
\* C28: a link that update() makes or removes during a pass does not change
\* the link lists before the pass has ended: no update() call of a pass leaves
\* the link lists different from what they were when it was called, and no
\* component is updated in a pass because of a link made in that pass.
C28_NoRelinkInPass ==
    AfterPass =>
        \A i \in 1..Len(log) : log[i].op = "update" => ~log[i].relinked

\* ---------------------------------------------------------------- C29
\* The links are acyclic and the last pass walked the components in an order
\* in which every component stands before those that can be reached from it.
SortedWalk ==
    /\ Acyclic(outLinks)
    /\ \A a, b \in Comps :
          b \in CompReachable(a, outLinks) => WalkPos(a) < WalkPos(b)

InputProps == {p \in Props : p.set = "ins"}

\* C29 as stated: after a pass without exception over acyclic links, walked
\* in a sorted order, with update() hooks that set only outputs of their own
\* component, no component and no input property has its changed flag set.
C29_PassBringsRest ==
    (AfterPass /\ ~last.thrown /\ SortedWalk) =>
        /\ \A c \in Comps : ~changed[c]
        /\ \A p \in InputProps : ~pchanged[p]

\* C29, amended: after such a pass no component has its changed flag set, and
\* no input property of a component that was updated in the pass has; an
\* input property of a component that was not updated may still have its
\* flag, which push() sets without marking the component.
C29_PassBringsComponentsToRest ==
    (AfterPass /\ ~last.thrown /\ SortedWalk) =>
        /\ \A c \in Comps : ~changed[c]
        /\ \A p \in InputProps : CalledAt(p.c) > 0 => ~pchanged[p]

\* A pass over linked components in sorted order, in which a component
\* forwarded a value to a later one, which was updated after it, and after
\* which every flag is clear.
C29_Witness ==
    /\ AfterPass /\ ~last.thrown /\ SortedWalk
    /\ \E a, b \in Comps :
          /\ FeedsInto(a, b)
          /\ CalledAt(a) > 0 /\ log[CalledAt(a)].hook = "forward"
          /\ CalledAt(b) > CalledAt(a)
    /\ \A c \in Comps : ~changed[c]
    /\ \A p \in InputProps : ~pchanged[p]

\* ---------------------------------------------------------------- C30
\* The properties in the list of the set, under its keys and in its path index.
InList == Range(pset.properties)

InKeyLookup == {pset.byKey[k] : k \in SetKeys} \ {NoProp}

InPathIndex == {pset.byPath[q] : q \in SetPaths} \ {NoProp}

\* C30: after any sequence of add and remove calls the list of the set, its
\* key lookup and its path index hold exactly the same properties, and after
\* remove(p) has returned the property p is in none of the three.
C30_ListAndLookupsAgree ==
    /\ InList = InKeyLookup
    /\ InList = InPathIndex
    /\ (last.op = "remove" /\ ~last.thrown) =>
          /\ last.property \notin InList
          /\ last.property \notin InKeyLookup
          /\ last.property \notin InPathIndex

=============================================================================
